---- MODULE Spec2Model ----
(***************************************************************************)
(* Symbolic inversion and under-decomposition of instruction sequences     *)
(* (src/src/algorithm/invert.rs).                                          *)
(*                                                                         *)
(* Instructions are records of one shape.  Rust slices are TLA+ sequences; *)
(* where the source uses 0-based indices the model keeps them and converts *)
(* in Get / Slice.  An Option is a record whose st field is "Some" or      *)
(* "None"; st = "Panic" stands for a Rust panic (index out of bounds,      *)
(* usize underflow).  A value that is used more than once is handed to a   *)
(* helper operator as an argument, so that it is computed once.            *)
(***************************************************************************)
EXTENDS Integers, Sequences, FiniteSets, TLC

\* ------------------------------------------------------------------ bounds
MaxLen == 4
MaxSessionLen == 2

\* ------------------------------------------------------------ instructions
NoPrim == "None"

Prim(p, s) == [tag |-> "Prim", prim |-> p, span |-> s, n |-> 0, ty |-> "-"]
PushVal(n, ty) == [tag |-> "Push", prim |-> NoPrim, span |-> 0, n |-> n, ty |-> ty]
PushF64(n) == PushVal(n, "f64")
PushU8(n) == PushVal(n, "u8")
PushI32(n) == PushVal(n, "i32")
\* a pushed function value that encodes primitive p (Value::as_primitive is Some)
PushPrim(p, s) == [tag |-> "Push", prim |-> p, span |-> s, n |-> 0, ty |-> "func"]
BeginArray == [tag |-> "BeginArray", prim |-> NoPrim, span |-> 0, n |-> 0, ty |-> "-"]
EndArray == [tag |-> "EndArray", prim |-> NoPrim, span |-> 0, n |-> 0, ty |-> "-"]

IsPrim(i, p) == i.tag = "Prim" /\ i.prim = p

\* ------------------------------------------------------------ slices
\* input.get(i): 0-based, absent past the end
HasIndex(input, i) == 0 <= i /\ i < Len(input)
Get(input, i) == input[i + 1]
\* &input[a..b], 0-based, b exclusive
Slice(input, a, b) == SubSeq(input, a + 1, b)
SliceFrom(input, a) == SubSeq(input, a + 1, Len(input))

\* ------------------------------------------------------------ options
Some(out, rest) == [st |-> "Some", out |-> out, rest |-> rest]
None == [st |-> "None", out |-> <<>>, rest |-> <<>>]
Panic == [st |-> "Panic", out |-> <<>>, rest |-> <<>>]

\* ------------------------------------------------- primitive metadata
\* Primitive::args / Primitive::outputs; -1 stands for Option::None
args(p) ==
    CASE p \in {"Add", "Sub", "Mul", "Div", "Pow", "Log"} -> 2
      [] p \in {"Take", "Drop", "Select", "Pick", "Rotate", "Join", "Flip", "Over"} -> 2
      [] p \in {"Neg", "Sqrt", "Dup", "First", "Last"} -> 1
      [] p \in {"Untake", "Undrop", "Unselect", "Unpick"} -> 3
      [] p = "Noop" -> 0
      [] OTHER -> -1

outputs(p) ==
    CASE p \in {"Add", "Sub", "Mul", "Div", "Pow", "Log"} -> 1
      [] p \in {"Take", "Drop", "Select", "Pick", "Rotate", "Join"} -> 1
      [] p \in {"Neg", "Sqrt", "First", "Last"} -> 1
      [] p \in {"Untake", "Undrop", "Unselect", "Unpick"} -> 1
      [] p \in {"Flip", "Dup"} -> 2
      [] p = "Over" -> 3
      [] p = "Noop" -> 0
      [] OTHER -> -1

\* Primitive::inverse: the algebraic-inverse table; NoPrim stands for None
inverse(p) ==
    CASE p = "Add" -> "Sub"
      [] p = "Sub" -> "Add"
      [] p = "Mul" -> "Div"
      [] p = "Div" -> "Mul"
      [] p = "Flip" -> "Flip"
      [] p = "Neg" -> "Neg"
      [] p = "Call" -> "Invert"
      [] p = "Invert" -> "Call"
      [] OTHER -> NoPrim

\* Value::as_primitive: Some((prim, span)) exactly for a function value
as_primitive(i) == i.prim

\* ------------------------------------------------- signature inference
SigOk(a, o) == [ok |-> TRUE, args |-> a, outputs |-> o]
SigErr == [ok |-> FALSE, args |-> 0, outputs |-> 0]

Min2(a, b) == IF a < b THEN a ELSE b

\* h: stack height relative to the start, mn: lowest height reached,
\* arr: heights saved at the open array brackets
RECURSIVE SigFrom(_, _, _, _, _)
SigFrom(chunk, i, h, mn, arr) ==
    IF i > Len(chunk)
    THEN IF arr # <<>> THEN SigErr ELSE SigOk(0 - mn, h - mn)
    ELSE LET ins == chunk[i] IN
         CASE ins.tag = "Push" -> SigFrom(chunk, i + 1, h + 1, mn, arr)
           [] ins.tag = "Prim" ->
                IF args(ins.prim) < 0 \/ outputs(ins.prim) < 0
                THEN SigErr
                ELSE LET low == h - args(ins.prim) IN
                     SigFrom(chunk, i + 1, low + outputs(ins.prim), Min2(mn, low), arr)
           [] ins.tag = "BeginArray" -> SigFrom(chunk, i + 1, h, mn, Append(arr, h))
           [] ins.tag = "EndArray" ->
                IF arr = <<>> \/ h < arr[Len(arr)]
                THEN SigErr
                ELSE SigFrom(chunk, i + 1, arr[Len(arr)] + 1, mn, SubSeq(arr, 1, Len(arr) - 1))
           [] OTHER -> SigErr

instrs_signature(chunk) == SigFrom(chunk, 1, 0, 0, <<>>)

\* ------------------------------------------------- emission templates
\* an element of an emission template: a primitive or an i32 literal
P(p) == [isPrim |-> TRUE, prim |-> p, n |-> 0]
I(n) == [isPrim |-> FALSE, prim |-> NoPrim, n |-> n]

\* AsInstr::as_instr
as_instr(e, span) == IF e.isPrim THEN Prim(e.prim, span) ELSE PushI32(e.n)

\* the prefix of input is exactly the primitives a (spans ignored)
MatchesPrims(a, input) ==
    /\ Len(a) <= Len(input)
    /\ \A k \in 1..Len(a) : IsPrim(input[k], a[k])

\* b.iter().zip(spans.iter().cycle()).map(as_instr): the spans of the matched
\* instructions, cycled; nothing is emitted when there is no span to cycle
Emit(b, spans) ==
    IF Len(spans) = 0 THEN <<>>
    ELSE [j \in 1..Len(b) |-> as_instr(b[j], spans[((j - 1) % Len(spans)) + 1])]

MatchedSpans(a, input) == [k \in 1..Len(a) |-> input[k].span]

\* impl InvertPattern for (&[Primitive], &[T])
Template_invert_extract(a, b, input) ==
    IF ~MatchesPrims(a, input) THEN None
    ELSE Some(Emit(b, MatchedSpans(a, input)), SliceFrom(input, Len(a)))

\* impl InvertPattern for Primitive
Primitive_invert_extract(p, input) ==
    IF ~HasIndex(input, 0) THEN None
    ELSE IF IsPrim(Get(input, 0), p)
         THEN Some(<<Prim(p, Get(input, 0).span)>>, SliceFrom(input, 1))
         ELSE None

\* ------------------------------------------------- Val
\* sig.args == 0 && sig.outputs == 1
IsValueSig(sig) == sig.ok /\ sig.args = 0 /\ sig.outputs = 1
IsValue(chunk) == IsValueSig(instrs_signature(chunk))

\* lines 447-456: for len in (1..input.len()).rev(), the first len that fits;
\* 0 when the loop falls through
RECURSIVE LongestValuePrefix(_, _)
LongestValuePrefix(input, len) ==
    IF len < 1 THEN 0
    ELSE IF IsValue(Slice(input, 0, len)) THEN len
    ELSE LongestValuePrefix(input, len - 1)

\* the bracket scan of Val (lines 469-481): one iteration of the loop
ScanInit == [i |-> 1, depth |-> 1, st |-> "Run"]

\* ScanBody with input[i] in place of input.get(i)?: indexing past the end
ScanBodyIndexing(input, s) ==
    IF ~HasIndex(input, s.i) THEN [s EXCEPT !.st = "Panic"]
    ELSE IF Get(input, s.i).tag = "EndArray"
         THEN IF s.depth - 1 = 0
              THEN [s EXCEPT !.depth = 0, !.st = "Break"]
              ELSE [s EXCEPT !.depth = s.depth - 1, !.i = s.i + 1]
         ELSE IF Get(input, s.i).tag = "BeginArray"
              THEN [s EXCEPT !.depth = s.depth + 1, !.i = s.i + 1]
              ELSE [s EXCEPT !.i = s.i + 1]

ScanBody(input, s) ==
    IF ~HasIndex(input, s.i) THEN [s EXCEPT !.st = "None"]
    ELSE IF Get(input, s.i).tag = "EndArray"
         THEN IF s.depth - 1 = 0
              THEN [s EXCEPT !.depth = 0, !.st = "Break"]
              ELSE [s EXCEPT !.depth = s.depth - 1, !.i = s.i + 1]
         ELSE IF Get(input, s.i).tag = "BeginArray"
              THEN [s EXCEPT !.depth = s.depth + 1, !.i = s.i + 1]
              ELSE [s EXCEPT !.i = s.i + 1]

RECURSIVE ScanLoop(_, _)
ScanLoop(input, s) == IF s.st # "Run" THEN s ELSE ScanLoop(input, ScanBody(input, s))

\* after the scan (lines 482-484): &input[..=i] and &input[i + 1..]
ScanResult(input, s) ==
    IF s.st = "None" THEN None
    ELSE IF s.i + 1 > Len(input) THEN Panic
    ELSE Some(Slice(input, 0, s.i + 1), SliceFrom(input, s.i + 1))

\* lines 457-487: match input.get(0); st = "Scan" says that the bracket scan
\* decides
ValFirst(input) ==
    LET first == Get(input, 0) IN
    CASE first.tag = "Push" -> Some(<<first>>, SliceFrom(input, 1))
      [] first.tag = "Prim" /\ args(first.prim) = 0 /\ outputs(first.prim) = 0 ->
           Some(<<first>>, SliceFrom(input, 1))
      [] first.tag = "BeginArray" -> [st |-> "Scan", out |-> <<>>, rest |-> <<>>]
      [] OTHER -> None

\* lines 451-453, with len the prefix the loop found
ValPrefix(input, len) ==
    IF len > 0 THEN Some(Slice(input, 0, len), SliceFrom(input, len)) ELSE ValFirst(input)

\* ValEntry with absence for the empty cursor
ValEntryEmptyFails(input) ==
    IF input = <<>> THEN None
    ELSE ValPrefix(input, LongestValuePrefix(input, Len(input) - 1))

\* lines 444-467 and 486: everything of Val but the bracket scan
ValEntry(input) ==
    IF input = <<>> THEN Some(<<>>, <<>>)
    ELSE ValPrefix(input, LongestValuePrefix(input, Len(input) - 1))

ValFinish(input, entry) ==
    IF entry.st = "Scan" THEN ScanResult(input, ScanLoop(input, ScanInit)) ELSE entry

\* impl InvertPattern for Val
Val_invert_extract(input) == ValFinish(input, ValEntry(input))

\* ------------------------------------------------- combinators
\* a.extend(b)
Extend(a, b) == IF b.st # "Some" THEN b ELSE Some(a.out \o b.out, b.rest)

\* impl InvertPattern for (A, B), with a the outcome of A on the input and b
\* the outcome of B on what A left
Pair_invert_extract(a, b) == IF a.st # "Some" THEN a ELSE Extend(a, b)

\* impl InvertPattern for IgnoreMany<T>, with T a Primitive (its one use)
RECURSIVE IgnoreMany_invert_extract(_, _)
\* IgnoreManyAfter that keeps what it matched
IgnoreManyKeeping(p, input, t) ==
    IF t.st = "Some" THEN Extend(t, IgnoreMany_invert_extract(p, t.rest))
    ELSE Some(<<>>, input)

IgnoreManyAfter(p, input, t) ==
    IF t.st = "Some" THEN IgnoreMany_invert_extract(p, t.rest) ELSE Some(<<>>, input)

IgnoreMany_invert_extract(p, input) ==
    IgnoreManyAfter(p, input, Primitive_invert_extract(p, input))

\* impl InvertPattern for (A, B, C), with a the outcome of A on the input, b
\* the outcome of B on what A left and c the outcome of C on what B left
Triple_invert_extract(a, b, c) ==
    IF a.st # "Some" THEN a
    ELSE IF b.st # "Some" THEN b
    ELSE IF c.st # "Some" THEN c
    ELSE Some(a.out \o b.out \o c.out, c.rest)

\* ------------------------------------------------- function patterns
\* lines 400-405: val[0] is a panic on an empty val
PowEmit(val, next) ==
    IF val.out = <<>> THEN Panic
    ELSE Some(<<PushU8(1), val.out[1], Prim("Div", next.span), Prim("Pow", next.span)>>,
              SliceFrom(val.rest, 1))

\* lines 395-409, with val the outcome of Val on the input
invert_pow_pattern(val) ==
    IF val.st # "Some" THEN val
    ELSE IF ~HasIndex(val.rest, 0) THEN None
    ELSE IF IsPrim(Get(val.rest, 0), "Pow") THEN PowEmit(val, Get(val.rest, 0))
    ELSE None

\* lines 416-420
LogEmit(val, next) ==
    IF val.out = <<>> THEN Panic
    ELSE Some(<<val.out[1], Prim("Flip", next.span), Prim("Pow", next.span)>>,
              SliceFrom(val.rest, 1))

\* lines 411-424, with val the outcome of Val on the input
invert_log_pattern(val) ==
    IF val.st # "Some" THEN val
    ELSE IF ~HasIndex(val.rest, 0) THEN None
    ELSE IF IsPrim(Get(val.rest, 0), "Log") THEN LogEmit(val, Get(val.rest, 0))
    ELSE None

\* lines 426-439, with val the outcome of Val on the input
invert_repeat_pattern(val) ==
    IF val.st # "Some" THEN val
    ELSE IF /\ Len(val.rest) >= 2
            /\ val.rest[1].tag = "Push"
            /\ IsPrim(val.rest[2], "Repeat")
         THEN Some(val.out \o <<Prim("Neg", val.rest[2].span), val.rest[1],
                                 Prim("Repeat", val.rest[2].span)>>,
                   SliceFrom(val.rest, 2))
         ELSE None

\* ------------------------------------------------- fragment inversion
NumInvertPatterns == 9

\* lines 77-90: the single-instruction cases; st = "Fall" falls through to
\* the pattern list
SingleFragment(instrs) ==
    IF Len(instrs) = 1 /\ instrs[1].tag = "Prim"
    THEN IF instrs[1].prim = "Sqrt"
         THEN Some(<<PushF64(2), Prim("Pow", instrs[1].span)>>, <<>>)
         ELSE IF inverse(instrs[1].prim) = NoPrim THEN None
         ELSE Some(<<Prim(inverse(instrs[1].prim), instrs[1].span)>>, <<>>)
    ELSE IF Len(instrs) = 1 /\ instrs[1].tag = "Push" /\ as_primitive(instrs[1]) # NoPrim
    THEN IF inverse(as_primitive(instrs[1])) = NoPrim THEN None
         ELSE Some(<<Prim(inverse(as_primitive(instrs[1])), instrs[1].span)>>, <<>>)
    ELSE [st |-> "Fall", out |-> <<>>, rest |-> <<>>]

Flips(input) == IgnoreMany_invert_extract("Flip", input)

\* (Val, (a, b))
ValThen(a, b, val) ==
    Pair_invert_extract(val, Template_invert_extract(a, b, val.rest))

\* (Val, IgnoreMany(Flip), (a, b))
ValFlipsThenWith(a, b, val, flips) ==
    Triple_invert_extract(val, flips, Template_invert_extract(a, b, flips.rest))

ValFlipsThen(a, b, val) == ValFlipsThenWith(a, b, val, Flips(val.rest))

\* lines 92-102: the k-th entry of the pattern list.  Every entry starts with
\* Val on the whole fragment; val is its outcome, computed once
InvertPatternAt(k, val) ==
    CASE k = 1 -> ValThen(<<"Invert">>, <<P("Call")>>, val)
      [] k = 2 -> ValThen(<<"Rotate">>, <<P("Neg"), P("Rotate")>>, val)
      [] k = 3 -> ValFlipsThen(<<"Add">>, <<P("Sub")>>, val)
      [] k = 4 -> ValThen(<<"Sub">>, <<P("Add")>>, val)
      [] k = 5 -> ValFlipsThen(<<"Mul">>, <<P("Div")>>, val)
      [] k = 6 -> ValThen(<<"Div">>, <<P("Mul")>>, val)
      [] k = 7 -> invert_pow_pattern(val)
      [] k = 8 -> invert_log_pattern(val)
      [] k = 9 -> invert_repeat_pattern(val)

\* lines 104-113: the first pattern from the k-th on that matches and leaves
\* nothing unconsumed decides; a pattern that panics ends the call
Decides(r) == r.st = "Panic" \/ (r.st = "Some" /\ r.rest = <<>>)

RECURSIVE FirstInvertMatch(_, _)
FirstInvertPick(k, val, r) ==
    IF Decides(r) THEN r ELSE FirstInvertMatch(k + 1, val)

FirstInvertMatch(k, val) ==
    IF k > NumInvertPatterns THEN None
    ELSE FirstInvertPick(k, val, InvertPatternAt(k, val))

\* lines 74-114, with val the outcome of Val on the fragment
FragmentWithVal(single, val) ==
    IF single.st # "Fall" THEN single ELSE FirstInvertMatch(1, val)

invert_instr_fragment(instrs) ==
    FragmentWithVal(SingleFragment(instrs), Val_invert_extract(instrs))

\* ------------------------------------------------- fragment under
NumUnderPatterns == 11

USome(before, after, rest) == [st |-> "Some", before |-> before, after |-> after, rest |-> rest]
UNone == [st |-> "None", before |-> <<>>, after |-> <<>>, rest |-> <<>>]
UPanic == [st |-> "Panic", before |-> <<>>, after |-> <<>>, rest |-> <<>>]

\* self.invert_extract(input).map(|v| (v, Vec::new()))
ValAsUnder(v) ==
    CASE v.st = "Some" -> USome(v.out, <<>>, v.rest)
      [] v.st = "Panic" -> UPanic
      [] OTHER -> UNone

\* impl UnderPattern for Val
Val_under_extract(input) == ValAsUnder(Val_invert_extract(input))

\* impl UnderPattern for (&[Primitive], &[A], &[B])
Template_under_extract(a, b, c, input) ==
    IF ~MatchesPrims(a, input) THEN UNone
    ELSE USome(Emit(b, MatchedSpans(a, input)), Emit(c, MatchedSpans(a, input)),
               SliceFrom(input, Len(a)))

\* a_before.extend(b_before); b_after.extend(a_after)
ExtendUnder(a, b) ==
    IF b.st # "Some" THEN b
    ELSE USome(a.before \o b.before, b.after \o a.after, b.rest)

\* impl UnderPattern for (A, B), with a the outcome of A on the input and b
\* the outcome of B on what A left
Pair_under_extract(a, b) == IF a.st # "Some" THEN a ELSE ExtendUnder(a, b)

\* (Val, (a, b, c))
ValThenUnder(a, b, c, val) ==
    Pair_under_extract(ValAsUnder(val), Template_under_extract(a, b, c, val.rest))

OverOver(p) == <<P("Over"), P("Over"), P(p)>>

\* lines 169-189, with val the outcome of Val on the fragment
UnderPatternAt(k, input, val) ==
    CASE k = 1 -> ValThenUnder(<<"Take">>, OverOver("Take"), <<P("Untake")>>, val)
      [] k = 2 -> Template_under_extract(<<"Take">>, OverOver("Take"), <<P("Untake")>>, input)
      [] k = 3 -> ValThenUnder(<<"Drop">>, OverOver("Drop"), <<P("Undrop")>>, val)
      [] k = 4 -> Template_under_extract(<<"Drop">>, OverOver("Drop"), <<P("Undrop")>>, input)
      [] k = 5 -> ValThenUnder(<<"Select">>, OverOver("Select"), <<P("Unselect")>>, val)
      [] k = 6 -> Template_under_extract(<<"Select">>, OverOver("Select"), <<P("Unselect")>>, input)
      [] k = 7 -> ValThenUnder(<<"Pick">>, OverOver("Pick"), <<P("Unpick")>>, val)
      [] k = 8 -> Template_under_extract(<<"Pick">>, OverOver("Pick"), <<P("Unpick")>>, input)
      [] k = 9 -> Template_under_extract(<<"Rotate">>, <<P("Flip"), P("Over"), P("Rotate")>>,
                                         <<P("Flip"), P("Neg"), P("Rotate")>>, input)
      [] k = 10 -> Template_under_extract(<<"First">>, <<P("Dup"), P("First")>>,
                       <<P("Flip"), I(1), P("Drop"), P("Flip"), P("Join")>>, input)
      [] k = 11 -> Template_under_extract(<<"Last">>, <<P("Dup"), P("Last")>>,
                       <<P("Flip"), I(-1), P("Drop"), P("Join")>>, input)

\* lines 191-200
RECURSIVE FirstUnderMatch(_, _, _)
FirstUnderPick(k, instrs, val, r) ==
    IF Decides(r) THEN r ELSE FirstUnderMatch(k + 1, instrs, val)

FirstUnderMatch(k, instrs, val) ==
    IF k > NumUnderPatterns THEN UNone
    ELSE FirstUnderPick(k, instrs, val, UnderPatternAt(k, instrs, val))

\* lines 165-167, with inverted the fragment's inverse
UnderAfterInvert(instrs, inverted, val) ==
    IF inverted.st = "Panic" THEN UPanic
    ELSE IF inverted.st = "Some" THEN USome(instrs, inverted.out, <<>>)
    ELSE FirstUnderMatch(1, instrs, val)

\* lines 163-201, with val the outcome of Val on the fragment
UnderWithVal(instrs, val) ==
    UnderAfterInvert(instrs, FragmentWithVal(SingleFragment(instrs), val), val)

under_instr_fragment(instrs) == UnderWithVal(instrs, Val_invert_extract(instrs))

\* ------------------------------------------------- the invert driver
\* lines 47-49
InvertLoopInit(instrs) ==
    [start |-> Len(instrs) - 1, end |-> Len(instrs), inverted |-> <<>>, st |-> "Run"]

\* InvertLoopStep with the fragment appended to the accumulator
InvertLoopStepAppending(s, frag) ==
    CASE frag.st = "Panic" -> [s EXCEPT !.st = "Panic"]
      [] frag.st = "Some" ->
           IF s.start = 0
           THEN [s EXCEPT !.inverted = s.inverted \o frag.out, !.st = "Break"]
           ELSE [s EXCEPT !.inverted = s.inverted \o frag.out,
                          !.end = s.start, !.start = s.start - 1]
      [] OTHER ->
           IF s.start = 0
           THEN [s EXCEPT !.st = "ReturnNone"]
           ELSE [s EXCEPT !.start = s.start - 1]

\* lines 51-63, with frag the outcome of invert_instr_fragment on the window.
\* st = "Break" leaves the loop with the result, "ReturnNone" is the early return
InvertLoopStep(s, frag) ==
    CASE frag.st = "Panic" -> [s EXCEPT !.st = "Panic"]
      [] frag.st = "Some" ->
           IF s.start = 0
           THEN [s EXCEPT !.inverted = frag.out \o s.inverted, !.st = "Break"]
           ELSE [s EXCEPT !.inverted = frag.out \o s.inverted,
                          !.end = s.start, !.start = s.start - 1]
      [] OTHER ->
           IF s.start = 0
           THEN [s EXCEPT !.st = "ReturnNone"]
           ELSE [s EXCEPT !.start = s.start - 1]

\* lines 50-64: one iteration of the loop; a window out of range is a panic
InvertLoopBody(instrs, s) ==
    IF ~(0 <= s.start /\ s.start <= s.end /\ s.end <= Len(instrs))
    THEN [s EXCEPT !.st = "Panic"]
    ELSE InvertLoopStep(s, invert_instr_fragment(Slice(instrs, s.start, s.end)))

RECURSIVE InvertLoop(_, _)
InvertLoop(instrs, s) ==
    IF s.st # "Run" THEN s ELSE InvertLoop(instrs, InvertLoopBody(instrs, s))

\* ------------------------------------------------- the under driver
\* lines 130-133
UnderLoopInit(instrs) ==
    [start |-> 0, end |-> Len(instrs), befores |-> <<>>, afters |-> <<>>, st |-> "Run"]

\* lines 135-151, with frag the outcome of under_instr_fragment on the window
UnderLoopStep(s, frag) ==
    CASE frag.st = "Panic" -> [s EXCEPT !.st = "Panic"]
      [] frag.st = "Some" ->
           IF s.start = 0
           THEN [s EXCEPT !.afters = frag.after \o s.afters,
                          !.befores = s.befores \o frag.before, !.st = "Break"]
           ELSE [s EXCEPT !.afters = frag.after \o s.afters,
                          !.befores = s.befores \o frag.before,
                          !.end = s.start, !.start = 0]
      [] OTHER ->
           IF s.start = 0
           THEN [s EXCEPT !.st = "ReturnNone"]
           ELSE [s EXCEPT !.start = s.start + 1]

\* lines 134-152: one iteration of the loop
UnderLoopBody(instrs, s) ==
    IF ~(0 <= s.start /\ s.start <= s.end /\ s.end <= Len(instrs))
    THEN [s EXCEPT !.st = "Panic"]
    ELSE UnderLoopStep(s, under_instr_fragment(Slice(instrs, s.start, s.end)))

RECURSIVE UnderLoop(_, _)
UnderLoop(instrs, s) ==
    IF s.st # "Run" THEN s ELSE UnderLoop(instrs, UnderLoopBody(instrs, s))

\* ------------------------------------------------- memoized entry points
EmptyCache == [k \in {} |-> None]
CacheInsert(cache, key, val) ==
    [k \in DOMAIN cache \cup {key} |-> IF k = key THEN val ELSE cache[k]]

\* what a call hands back: its result, the cache after it, and the loops it ran
Outcome(res, cache, ran) == [res |-> res, cache |-> cache, ran |-> ran]

\* lines 65-71 and 60: what invert_instrs does once its loop has ended in fin
InvertFinish(instrs, cache, fin) ==
    CASE fin.st = "Break" ->
           Outcome(Some(fin.inverted, <<>>),
                   CacheInsert(cache, instrs, Some(fin.inverted, <<>>)), {"invert"})
      [] fin.st = "ReturnNone" -> Outcome(None, cache, {"invert"})
      [] OTHER -> Outcome(Panic, cache, {"invert"})

\* lines 34-72
invert_instrs(instrs, cache) ==
    IF instrs = <<>> THEN Outcome(Some(<<>>, <<>>), cache, {})
    ELSE IF instrs \in DOMAIN cache THEN Outcome(cache[instrs], cache, {})
    ELSE InvertFinish(instrs, cache, InvertLoop(instrs, InvertLoopInit(instrs)))

\* lines 153-160 and 148: what under_instrs does once its loop has ended in fin
UnderFinish(instrs, cache, fin) ==
    CASE fin.st = "Break" ->
           Outcome(USome(fin.befores, fin.afters, <<>>),
                   CacheInsert(cache, instrs, USome(fin.befores, fin.afters, <<>>)),
                   {"under"})
      [] fin.st = "ReturnNone" -> Outcome(UNone, cache, {"under"})
      [] OTHER -> Outcome(UPanic, cache, {"under"})

\* lines 118-161
under_instrs(instrs, cache) ==
    IF instrs = <<>> THEN Outcome(USome(<<>>, <<>>, <<>>), cache, {})
    ELSE IF instrs \in DOMAIN cache THEN Outcome(cache[instrs], cache, {})
    ELSE UnderFinish(instrs, cache, UnderLoop(instrs, UnderLoopInit(instrs)))

\* ------------------------------------------------- Function
FunctionKind == {"Normal", "Other"}
Function(id, instrs, kind) == [id |-> id, instrs |-> instrs, kind |-> kind]
NoFunction == Function("-", <<>>, "-")

FSome(f, g) == [st |-> "Some", f |-> f, g |-> g]
FNone == [st |-> "None", f |-> NoFunction, g |-> NoFunction]
FPanic == [st |-> "Panic", f |-> NoFunction, g |-> NoFunction]

\* lines 15-19, with inv the outcome of invert_instrs(&self.instrs)
InverseFrom(self, inv) ==
    CASE inv.res.st = "Some" ->
           Outcome(FSome(Function(self.id, inv.res.out, "Normal"), NoFunction),
                   inv.cache, inv.ran)
      [] inv.res.st = "Panic" -> Outcome(FPanic, inv.cache, inv.ran)
      [] OTHER -> Outcome(FNone, inv.cache, inv.ran)

\* lines 11-20; the result is in f
Function_inverse(self, icache) ==
    IF self.kind # "Normal" THEN Outcome(FNone, icache, {})
    ELSE InverseFrom(self, invert_instrs(self.instrs, icache))

\* lines 25-29, with und the outcome of under_instrs(&self.instrs)
UnderFrom(self, inv, und) ==
    CASE und.res.st = "Some" ->
           Outcome(FSome(Function(self.id, und.res.before, "Normal"),
                         Function(self.id, und.res.after, "Normal")),
                   <<inv.cache, und.cache>>, inv.ran \cup und.ran)
      [] und.res.st = "Panic" ->
           Outcome(FPanic, <<inv.cache, und.cache>>, inv.ran \cup und.ran)
      [] OTHER -> Outcome(FNone, <<inv.cache, und.cache>>, inv.ran \cup und.ran)

\* lines 22-30, with inv the outcome of self.inverse()
UnderAfterInverse(self, ucache, inv) ==
    CASE inv.res.st = "Some" ->
           Outcome(FSome(self, inv.res.f), <<inv.cache, ucache>>, inv.ran)
      [] inv.res.st = "Panic" -> Outcome(FPanic, <<inv.cache, ucache>>, inv.ran)
      [] OTHER -> UnderFrom(self, inv, under_instrs(self.instrs, ucache))

\* lines 21-31; cache is the pair of caches, the result is the pair (f, g)
Function_under(self, icache, ucache) ==
    UnderAfterInverse(self, ucache, Function_inverse(self, icache))

\* ------------------------------------------------- the inputs
\* the instructions the inputs are made of: the ones common to all inputs, and
\* two families of three operators each (an arithmetic one with a flip-tolerant
\* rule, a pow/log one, an indexing one)
Common == {PushF64(2), Prim("Flip", 5), BeginArray, EndArray}

AlphabetAdd == Common \cup {Prim("Add", 1), Prim("Pow", 3), Prim("Take", 6)}

AlphabetMul == Common \cup {Prim("Mul", 2), Prim("Log", 4), Prim("Select", 7)}

SeqsOver(alphabet, n) == UNION {[1..k -> alphabet] : k \in 0..n}

SeqsUpTo(n) == SeqsOver(AlphabetAdd, n) \cup SeqsOver(AlphabetMul, n)

\* the sequences a session submits: the body and the body without its first
\* instruction
Args(body) == {body} \cup (IF body = <<>> THEN {} ELSE {SliceFrom(body, 1)})

\* ------------------------------------------------- the state machine
VARIABLES
    instrs,         \* the instruction sequence of the function at hand
    INVERT_CACHE,   \* thread-local memo table of invert_instrs
    UNDER_CACHE,    \* thread-local memo table of under_instrs
    call,           \* the last call: [op, arg]
    result,         \* what the last call returned
    ranLoop,        \* the segmentation loops the last call ran
    seen,           \* the invert_instrs / under_instrs calls so far, with their results
    pc,             \* where a call executed step by step stands
    loop            \* the local variables of its loop

vars == <<instrs, INVERT_CACHE, UNDER_CACHE, call, result, ranLoop, seen, pc, loop>>

Call(op, arg) == [op |-> op, arg |-> arg]
Seen(op, arg, res) == [op |-> op, arg |-> arg, res |-> res]
NoLoop == [st |-> "-"]

Fresh ==
    /\ INVERT_CACHE = EmptyCache
    /\ UNDER_CACHE = EmptyCache
    /\ call = Call("none", <<>>)
    /\ result = None
    /\ ranLoop = {}
    /\ seen = {}
    /\ pc = "idle"
    /\ loop = NoLoop

\* ---- a session: any number of calls on one thread, each taken as a whole
Init ==
    /\ instrs \in SeqsUpTo(MaxSessionLen)
    /\ Fresh

\* the call op(arg) returned r, having made the submissions subs
Returned(op, arg, r, icache, ucache, subs) ==
    /\ INVERT_CACHE' = icache
    /\ UNDER_CACHE' = ucache
    /\ call' = Call(op, arg)
    /\ result' = r.res
    /\ ranLoop' = r.ran
    /\ seen' = seen \cup subs
    /\ UNCHANGED <<instrs, pc, loop>>

InvertReturned(a, r) ==
    Returned("invert_instrs", a, r, r.cache, UNDER_CACHE, {Seen("invert_instrs", a, r.res)})

Invert == \E a \in Args(instrs) : InvertReturned(a, invert_instrs(a, INVERT_CACHE))

UnderReturned(a, r) ==
    Returned("under_instrs", a, r, INVERT_CACHE, r.cache, {Seen("under_instrs", a, r.res)})

Under == \E a \in Args(instrs) : UnderReturned(a, under_instrs(a, UNDER_CACHE))

\* the invert_instrs call Function::inverse makes, as an entry of seen
InverseSubmits(self, icache) ==
    IF self.kind # "Normal" THEN {}
    ELSE {Seen("invert_instrs", self.instrs, invert_instrs(self.instrs, icache).res)}

\* the under_instrs call Function::under makes when the inverse is absent
UnderSubmits(self, icache, ucache) ==
    IF Function_inverse(self, icache).res.st # "None" THEN {}
    ELSE {Seen("under_instrs", self.instrs, under_instrs(self.instrs, ucache).res)}

FnInverseReturned(self, r) ==
    Returned("Function::inverse", self, r, r.cache, UNDER_CACHE,
             InverseSubmits(self, INVERT_CACHE))

FnInverse ==
    \E kind \in FunctionKind :
        FnInverseReturned(Function("f", instrs, kind),
                          Function_inverse(Function("f", instrs, kind), INVERT_CACHE))

FnUnderReturned(self, r) ==
    Returned("Function::under", self, r, r.cache[1], r.cache[2],
             InverseSubmits(self, INVERT_CACHE)
                 \cup UnderSubmits(self, INVERT_CACHE, UNDER_CACHE))

FnUnder ==
    \E kind \in FunctionKind :
        FnUnderReturned(Function("f", instrs, kind),
                        Function_under(Function("f", instrs, kind), INVERT_CACHE, UNDER_CACHE))

Next ==
    \/ Invert
    \/ Under
    \/ FnInverse
    \/ FnUnder

Spec == Init /\ [][Next]_vars

\* ---- one call on a fresh thread, its loops executed one iteration at a time
InitCall ==
    /\ instrs \in SeqsUpTo(MaxLen)
    /\ Fresh

StartInvert ==
    /\ pc = "idle"
    /\ call' = Call("invert_instrs", instrs)
    /\ IF instrs = <<>> \/ instrs \in DOMAIN INVERT_CACHE
       THEN /\ result' = invert_instrs(instrs, INVERT_CACHE).res
            /\ pc' = "done"
            /\ UNCHANGED <<loop, ranLoop>>
       ELSE /\ pc' = "invert_loop"
            /\ loop' = InvertLoopInit(instrs)
            /\ ranLoop' = {"invert"}
            /\ UNCHANGED result
    /\ UNCHANGED <<instrs, INVERT_CACHE, UNDER_CACHE, seen>>

\* the loop has left the iteration in s; o is what the entry point does if it ended
IterDone(s, o, icache, ucache) ==
    /\ loop' = s
    /\ IF s.st = "Run"
       THEN UNCHANGED <<pc, result, INVERT_CACHE, UNDER_CACHE>>
       ELSE /\ pc' = "done"
            /\ result' = o.res
            /\ INVERT_CACHE' = icache
            /\ UNDER_CACHE' = ucache
    /\ UNCHANGED <<instrs, call, ranLoop, seen>>

InvertIterDone(s, o) == IterDone(s, o, o.cache, UNDER_CACHE)

InvertIterTo(s) == InvertIterDone(s, InvertFinish(instrs, INVERT_CACHE, s))

InvertIter ==
    /\ pc = "invert_loop"
    /\ InvertIterTo(InvertLoopBody(instrs, loop))

StartUnder ==
    /\ pc = "idle"
    /\ call' = Call("under_instrs", instrs)
    /\ IF instrs = <<>> \/ instrs \in DOMAIN UNDER_CACHE
       THEN /\ result' = under_instrs(instrs, UNDER_CACHE).res
            /\ pc' = "done"
            /\ UNCHANGED <<loop, ranLoop>>
       ELSE /\ pc' = "under_loop"
            /\ loop' = UnderLoopInit(instrs)
            /\ ranLoop' = {"under"}
            /\ UNCHANGED result
    /\ UNCHANGED <<instrs, INVERT_CACHE, UNDER_CACHE, seen>>

UnderIterDone(s, o) == IterDone(s, o, INVERT_CACHE, o.cache)

UnderIterTo(s) == UnderIterDone(s, UnderFinish(instrs, UNDER_CACHE, s))

UnderIter ==
    /\ pc = "under_loop"
    /\ UnderIterTo(UnderLoopBody(instrs, loop))

ValStarted(entry) ==
    /\ call' = Call("Val", instrs)
    /\ IF entry.st = "Scan"
       THEN /\ pc' = "val_scan"
            /\ loop' = ScanInit
            /\ UNCHANGED result
       ELSE /\ pc' = "done"
            /\ result' = entry
            /\ UNCHANGED loop
    /\ UNCHANGED <<instrs, INVERT_CACHE, UNDER_CACHE, ranLoop, seen>>

StartVal ==
    /\ pc = "idle"
    /\ ValStarted(ValEntry(instrs))

ValScanTo(s) ==
    /\ loop' = s
    /\ IF s.st = "Run"
       THEN UNCHANGED <<pc, result>>
       ELSE /\ pc' = "done"
            /\ result' = ScanResult(instrs, s)
    /\ UNCHANGED <<instrs, INVERT_CACHE, UNDER_CACHE, call, ranLoop, seen>>

ValScanIter ==
    /\ pc = "val_scan"
    /\ ValScanTo(ScanBody(instrs, loop))

InvertFragment ==
    /\ pc = "idle"
    /\ instrs # <<>>
    /\ call' = Call("invert_instr_fragment", instrs)
    /\ result' = invert_instr_fragment(instrs)
    /\ pc' = "done"
    /\ UNCHANGED <<instrs, INVERT_CACHE, UNDER_CACHE, ranLoop, seen, loop>>

UnderFragment ==
    /\ pc = "idle"
    /\ instrs # <<>>
    /\ call' = Call("under_instr_fragment", instrs)
    /\ result' = under_instr_fragment(instrs)
    /\ pc' = "done"
    /\ UNCHANGED <<instrs, INVERT_CACHE, UNDER_CACHE, ranLoop, seen, loop>>

NextCall ==
    \/ StartInvert
    \/ InvertIter
    \/ StartUnder
    \/ UnderIter
    \/ StartVal
    \/ ValScanIter
    \/ InvertFragment
    \/ UnderFragment

SpecCall == InitCall /\ [][NextCall]_vars

\* ------------------------------------------------- properties
\* the call op has returned
Done(op) == pc = "done" /\ call.op = op

\* ---- under_instrs
\* a fragment the under rules accept although it has no inverse
IsViewIdiom(f) ==
    /\ f # <<>>
    /\ invert_instr_fragment(f).st = "None"
    /\ under_instr_fragment(f).st = "Some"

SegmentedUnder(v1, v2) ==
    USome(under_instr_fragment(v1).before \o under_instr_fragment(v2).before,
          under_instr_fragment(v2).after \o under_instr_fragment(v1).after, <<>>)

\* C1: under on V1 ++ V2, two view idioms each accepted by the fragment under
\* rules and not accepted together as one fragment, succeeds with befores
\* before(V1) ++ before(V2) and afters after(V2) ++ after(V1)
C1_UnderSegments ==
    Done("under_instrs") =>
        \A k \in 1..(Len(instrs) - 1) :
            (/\ IsViewIdiom(Slice(instrs, 0, k))
             /\ IsViewIdiom(SliceFrom(instrs, k))
             /\ under_instr_fragment(instrs).st = "None")
            => result = SegmentedUnder(Slice(instrs, 0, k), SliceFrom(instrs, k))

\* ---- the memo caches
\* the call just made repeats a submission of an earlier call
Resubmitted ==
    /\ call'.op \in {"invert_instrs", "under_instrs"}
    /\ call'.arg # <<>>
    /\ \E s \in seen : s.op = call'.op /\ s.arg = call'.arg

\* C2: a call of invert or under on a non-empty sequence that was submitted
\* before returns what the earlier call returned and runs no segmentation
\* loop, whether the earlier call succeeded or failed
C2_Memoized ==
    [][Resubmitted =>
          /\ ranLoop' = {}
          /\ \A s \in seen : (s.op = call'.op /\ s.arg = call'.arg) => s.res = result']_vars

\* ---- invert_instrs
\* the operators the fragment inversion rules match
RuleOperators == {"Sqrt", "Invert", "Rotate", "Add", "Sub", "Mul", "Div", "Pow", "Log", "Repeat"}

\* a primitive with no algebraic inverse that no fragment inversion rule matches
NonInvertible(i) ==
    /\ i.tag = "Prim"
    /\ inverse(i.prim) = NoPrim
    /\ i.prim \notin RuleOperators

\* C3: a successful result of invert never lacks an instruction of the input
\* that is a primitive without algebraic inverse and without a rule of its own
C3_NoSilentDrop ==
    (Done("invert_instrs") /\ result.st = "Some") =>
        \A k \in 1..Len(instrs) :
            NonInvertible(instrs[k]) => \E j \in 1..Len(result.out) : result.out[j] = instrs[k]

\* a literal constant followed by the operator p
IsConstThen(input, p) ==
    /\ Len(input) = 2
    /\ input[1].tag = "Push"
    /\ as_primitive(input[1]) = NoPrim
    /\ IsPrim(input[2], p)

\* C4: invert([Push(v), Add]) = [Push(v), Sub] and invert([Push(v), Mul]) =
\* [Push(v), Div] for every literal constant v that encodes no primitive
C4_ComposedIdentity ==
    Done("invert_instrs") =>
        /\ IsConstThen(instrs, "Add") =>
               result = Some(<<instrs[1], Prim("Sub", instrs[2].span)>>, <<>>)
        /\ IsConstThen(instrs, "Mul") =>
               result = Some(<<instrs[1], Prim("Div", instrs[2].span)>>, <<>>)

\* input is a self-contained value expression followed by the operator p
IsValueThen(input, p) ==
    /\ Len(input) >= 2
    /\ IsValue(Slice(input, 0, Len(input) - 1))
    /\ IsPrim(input[Len(input)], p)

Front(input) == Slice(input, 0, Len(input) - 1)
Last(input) == input[Len(input)]

\* C5: for every value expression e (signature 0 in, 1 out) of any length,
\* invert(e ++ [Pow]) = [Push(1)] ++ e ++ [Div, Pow] and
\* invert(e ++ [Log]) = e ++ [Flip, Pow]
C5_PowLogWholeValue ==
    Done("invert_instrs") =>
        /\ IsValueThen(instrs, "Pow") =>
               result = Some(<<PushU8(1)>> \o Front(instrs)
                                 \o <<Prim("Div", Last(instrs).span),
                                      Prim("Pow", Last(instrs).span)>>, <<>>)
        /\ IsValueThen(instrs, "Log") =>
               result = Some(Front(instrs)
                                 \o <<Prim("Flip", Last(instrs).span),
                                      Prim("Pow", Last(instrs).span)>>, <<>>)

\* ---- termination
\* the nesting depth after input[0..=j], input[0] being a BeginArray
DepthAfter(input, j) ==
    1 + Cardinality({k \in 2..(j + 1) : input[k].tag = "BeginArray"})
      - Cardinality({k \in 2..(j + 1) : input[k].tag = "EndArray"})

\* input starts with a BeginArray that no EndArray of input closes
Unterminated(input) ==
    /\ input # <<>>
    /\ input[1].tag = "BeginArray"
    /\ \A j \in 1..(Len(input) - 1) : DepthAfter(input, j) >= 1

NoPanic == result.st # "Panic" /\ loop.st # "Panic"

UnterminatedIsAbsence ==
    (/\ pc = "done"
     /\ call.op \in {"Val", "invert_instr_fragment", "under_instr_fragment"}
     /\ Unterminated(instrs))
    => result.st = "None"

\* a running loop indexes inside the slice
InRange ==
    /\ pc \in {"invert_loop", "under_loop"} =>
           (0 <= loop.start /\ loop.start < loop.end /\ loop.end <= Len(instrs))
    /\ pc = "val_scan" => (1 <= loop.i /\ loop.i <= Len(instrs))

\* a bound on the iterations a loop in state s has left
InvertFuel(s) == s.end * (Len(instrs) + 1) + s.start
UnderFuel(s) == s.end * (Len(instrs) + 1) + (s.end - s.start)
ScanFuel(s) == Len(instrs) - s.i

\* the iteration that leads to next ends the loop or leaves strictly less fuel
Closer(next, fuelNext, fuelNow) ==
    next.st # "Run" \/ (0 <= fuelNext /\ fuelNext < fuelNow)

InvertCloser(next) == Closer(next, InvertFuel(next), InvertFuel(loop))
UnderCloser(next) == Closer(next, UnderFuel(next), UnderFuel(loop))
ScanCloser(next) == Closer(next, ScanFuel(next), ScanFuel(loop))

\* the next iteration of the running loop ends it or brings it closer to its end
Progresses ==
    /\ pc = "invert_loop" => InvertCloser(InvertLoopBody(instrs, loop))
    /\ pc = "under_loop" => UnderCloser(UnderLoopBody(instrs, loop))
    /\ pc = "val_scan" => ScanCloser(ScanBody(instrs, loop))

\* C6: invert, under and Val never panic and every iteration of their loops
\* ends the loop or brings it closer to its end, so that the call returns; on
\* a cursor that starts with a BeginArray without matching EndArray, Val and
\* the fragment rules return absence
C6_TerminatesWithoutPanic ==
    /\ NoPanic
    /\ InRange
    /\ Progresses
    /\ UnterminatedIsAbsence

\* Val scanned an unterminated array literal to the end of the slice
C6_Witness ==
    /\ Done("Val")
    /\ Unterminated(instrs)
    /\ Len(instrs) >= 3
    /\ loop.st = "None"
    /\ loop.i = Len(instrs)
    /\ result = None

\* ---- Function
\* C7: for a function that is not Normal, Function::inverse and
\* Function::under return nothing, whatever its instructions; for a Normal
\* function whose body inverts, Function::under returns (self, inverse) and
\* does not run the under decomposition
C7_OnlyNormal ==
    /\ (call.op \in {"Function::inverse", "Function::under"} /\ call.arg.kind # "Normal")
       => result = FNone
    /\ (/\ call.op = "Function::under"
        /\ call.arg.kind = "Normal"
        /\ invert_instrs(call.arg.instrs, EmptyCache).res.st = "Some")
       => /\ result = FSome(call.arg,
                            Function(call.arg.id,
                                     invert_instrs(call.arg.instrs, EmptyCache).res.out,
                                     "Normal"))
          /\ "under" \notin ranLoop

\* ---- the segmentation of invert_instrs
Accepts(f) == invert_instr_fragment(f).st = "Some"

Max(S) == CHOOSE x \in S : \A y \in S : y <= x

\* where the shortest accepted window that ends at e starts; -1 when no window
\* that ends at e is accepted
ShortestStart(input, e) ==
    IF \E s \in 0..(e - 1) : Accepts(Slice(input, s, e))
    THEN Max({s \in 0..(e - 1) : Accepts(Slice(input, s, e))})
    ELSE -1

\* the inverses of the fragments of the partition of input[0..e) into shortest
\* accepted windows, left to right; absence when there is no such partition
RECURSIVE Covering(_, _)
CoveringThen(left, out) ==
    IF left.st # "Some" THEN None ELSE Some(left.out \o out, <<>>)

CoveringFrom(input, e, s) ==
    IF s < 0 THEN None
    ELSE CoveringThen(Covering(input, s), invert_instr_fragment(Slice(input, s, e)).out)

Covering(input, e) ==
    IF e = 0 THEN Some(<<>>, <<>>) ELSE CoveringFrom(input, e, ShortestStart(input, e))

\* C8: on a non-empty sequence invert returns inverse(F1) ++ ... ++
\* inverse(Fk) for the partition F1..Fk of the whole input in which every
\* fragment is the shortest accepted window ending at its right boundary, and
\* failure when there is no such partition
C8_CoversWholeInput ==
    (Done("invert_instrs") /\ instrs # <<>>) => result = Covering(instrs, Len(instrs))

\* invert succeeded on an input of several fragments, the last of them longer
\* than one instruction
C8_Witness ==
    /\ Done("invert_instrs")
    /\ result.st = "Some"
    /\ ShortestStart(instrs, Len(instrs)) > 0
    /\ ShortestStart(instrs, Len(instrs)) < Len(instrs) - 1

\* ---- the flip-tolerant rules
\* input is e ++ [Flip]*n ++ [p] with e a value expression of k instructions
IsValueFlipsThen(input, k, p) ==
    /\ 1 <= k /\ k < Len(input)
    /\ IsValue(Slice(input, 0, k))
    /\ \A j \in (k + 1)..(Len(input) - 1) : IsPrim(input[j], "Flip")
    /\ IsPrim(Last(input), p)

FlipRuleResult(keepFlips) ==
    \A k \in 1..(Len(instrs) - 1) :
        \A p \in {"Add", "Mul"} :
            IsValueFlipsThen(instrs, k, p) =>
                result = Some((IF keepFlips THEN Front(instrs) ELSE Slice(instrs, 0, k))
                                  \o <<Prim(inverse(p), Last(instrs).span)>>, <<>>)

\* C9 (as written): the fragment e ++ [Flip]*n ++ [Add] inverts to
\* e ++ [Flip]*n ++ [Sub], and with Mul/Div likewise: every matched Flip is
\* in the emitted inverse
C9_FlipsKept == Done("invert_instr_fragment") => FlipRuleResult(TRUE)

\* C9 (amended): the fragment e ++ [Flip]*n ++ [Add] inverts to e ++ [Sub],
\* and with Mul/Div likewise: the matched Flips are not in the emitted inverse
C9_FlipsDiscarded == Done("invert_instr_fragment") => FlipRuleResult(FALSE)

\* a fragment with two flips between the value and the operator was inverted
C9_Witness ==
    /\ Done("invert_instr_fragment")
    /\ \E p \in {"Add", "Mul"} : IsValueFlipsThen(instrs, Len(instrs) - 3, p)
    /\ result.st = "Some"

\* ---- Val
\* what Val accepts at the start of a non-empty cursor
StartsWithValue(input) ==
    \/ \E len \in 1..(Len(input) - 1) : IsValue(Slice(input, 0, len))
    \/ input[1].tag = "Push"
    \/ input[1].tag = "Prim" /\ args(input[1].prim) = 0 /\ outputs(input[1].prim) = 0
    \/ input[1].tag = "BeginArray" /\ ~Unterminated(input)

\* C10 (as written): Val returns absence for the empty cursor and, for every
\* non-empty cursor, succeeds and consumes a non-empty prefix
C10_FailsOnlyOnEmpty ==
    Done("Val") =>
        IF instrs = <<>> THEN result = None
        ELSE result.st = "Some" /\ result.out # <<>>

\* C10 (amended): for the empty cursor Val succeeds with nothing extracted and
\* nothing consumed; for a non-empty cursor it succeeds, consuming a non-empty
\* prefix, exactly when a proper prefix has signature (0, 1) or the cursor
\* starts with a Push, a primitive of signature (0, 0) or a BeginArray closed
\* within the cursor, and returns absence otherwise
C10_ValOutcome ==
    Done("Val") =>
        IF instrs = <<>> THEN result = Some(<<>>, <<>>)
        ELSE IF StartsWithValue(instrs)
             THEN /\ result.st = "Some"
                  /\ result.out # <<>>
                  /\ result.out \o result.rest = instrs
             ELSE result = None

\* Val returned absence for a cursor of several instructions
C10_Witness ==
    /\ Done("Val")
    /\ Len(instrs) >= 2
    /\ result = None

====
